---------------------------- MODULE Spec2Model ----------------------------
(***************************************************************************)
(* A model of the retrieval layer of the UChicago MS-ADS assistant:        *)
(*   app/vector_search.py   load_vectordb, search_similar_chunks,          *)
(*                          format_chunk_results, inspect_metadata         *)
(*   app/main_streamlit.py  the script Streamlit re-executes on every       *)
(*                          interaction of one session                     *)
(* A Python str is a sequence of one-character strings, so that len(),     *)
(* slicing, join() and equality of strings are those of the program.       *)
(***************************************************************************)
EXTENDS Integers, Sequences, FiniteSets, TLC

VARIABLES
    args,          \* the call of vector_search.py the caller makes: the function and its arguments
    outcome,       \* "return" or "raise": how that call ended ("none" before it is made)
    db,            \* the handle the caller holds: what load_vectordb returned last
    retDocs,       \* the list search_similar_chunks returned
    retStr,        \* the str format_chunk_results returned
    output_parts,  \* format_chunk_results' list output_parts when it returned
    retMap,        \* the dict inspect_metadata returned
    indexCalls,    \* the similarity_search calls that call made on the index, in order
    printed,       \* the number of error lines that call printed
    imported,      \* main_streamlit: vector_search is in sys.modules
    envKey,        \* main_streamlit: os.environ holds OPENAI_API_KEY
    dotenvKey,     \* main_streamlit: the .env file holds OPENAI_API_KEY
    indexOnDisk,   \* main_streamlit: app/data/data/vectordb holds a saved index
    ss_vectordb,   \* st.session_state.vectordb ("unset": the key is not in session_state)
    ss_chain,      \* st.session_state.chain    ("unset": the key is not in session_state)
    chat_history,  \* st.session_state.chat_history, the roles of its entries
    loads,         \* the number of load_vectordb calls of the session
    setups,        \* the number of setup() calls of the session
    reruns         \* the number of script runs of the session

libVars == <<args, outcome, db, retDocs, retStr, output_parts, retMap, indexCalls, printed>>

appVars == <<imported, envKey, dotenvKey, indexOnDisk, ss_vectordb, ss_chain, chat_history,
             loads, setups, reruns>>

vars == <<libVars, appVars>>

\* ------------------------------------------------------------------ bounds

\* the largest k (and sample_size) a caller passes
MaxK == 3

\* the longest documents list passed to format_chunk_results
MaxDocs == 2

\* the largest max_content_length passed to format_chunk_results
MaxLen == 3

\* the script runs of one Streamlit session
MaxReruns == 4

\* ------------------------------------------------------------------ Python str

Lower == <<"a","b","c","d","e","f","g","h","i","j","k","l","m",
           "n","o","p","q","r","s","t","u","v","w","x","y","z">>

Upper == <<"A","B","C","D","E","F","G","H","I","J","K","L","M",
           "N","O","P","Q","R","S","T","U","V","W","X","Y","Z">>

Range(s) == {s[i] : i \in DOMAIN s}

IndexIn(c, s) == CHOOSE i \in DOMAIN s : s[i] = c

IsCased(c) == c \in Range(Lower) \cup Range(Upper)

ToUpper(c) == IF c \in Range(Lower) THEN Upper[IndexIn(c, Lower)] ELSE c

ToLower(c) == IF c \in Range(Upper) THEN Lower[IndexIn(c, Upper)] ELSE c

\* str.replace('_', ' ')
ReplaceUnderscore(s) == [i \in DOMAIN s |-> IF s[i] = "_" THEN " " ELSE s[i]]

\* str.title(): a cased character is upper-cased after an uncased one (or at the
\* start) and lower-cased after a cased one
Title(s) ==
    [i \in DOMAIN s |->
        IF ~IsCased(s[i]) THEN s[i]
        ELSE IF i > 1 /\ IsCased(s[i - 1]) THEN ToLower(s[i])
        ELSE ToUpper(s[i])]

Digit == <<"0","1","2","3","4","5","6","7","8","9">>

RECURSIVE Decimal(_)
\* str(n) of an int n >= 0
Decimal(n) == IF n < 10 THEN <<Digit[n + 1]>> ELSE Decimal(n \div 10) \o <<Digit[(n % 10) + 1]>>

RECURSIVE Join(_, _)
\* sep.join(parts)
Join(parts, sep) ==
    IF parts = <<>> THEN <<>>
    ELSE IF Len(parts) = 1 THEN parts[1]
    ELSE parts[1] \o sep \o Join(Tail(parts), sep)

\* s[:n] for n >= 0
Prefix(s, n) == SubSeq(s, 1, IF n < Len(s) THEN n ELSE Len(s))

NL == <<"\n">>

\* "-" * 10
Dashes == [i \in 1..10 |-> "-"]

Ellipsis == <<".", ".", ".">>

NoResults == <<"N","o"," ","r","e","s","u","l","t","s"," ","f","o","u","n","d",".">>

FoundPrefix == <<"F","o","u","n","d"," ">>

FoundSuffix == <<" ","r","e","l","e","v","a","n","t"," ","c","h","u","n","k","s",":","\n">>

ChunkPrefix == <<"\n","C","h","u","n","k"," ">>

ContentHeader == <<"\n","C","o","n","t","e","n","t",":">>

\* ------------------------------------------------------------------ the index

\* metadata field names
page_type == <<"p","a","g","e","_","t","y","p","e">>

primary_category ==
    <<"p","r","i","m","a","r","y","_","c","a","t","e","g","o","r","y">>

subcategory == <<"s","u","b","c","a","t","e","g","o","r","y">>

title == <<"t","i","t","l","e">>

chunk_index == <<"c","h","u","n","k","_","i","n","d","e","x">>

total_chunks == <<"t","o","t","a","l","_","c","h","u","n","k","s">>

source == <<"s","o","u","r","c","e">>

\* a field no default list names
author == <<"a","u","t","h","o","r">>

\* a Document: page_content and metadata
Doc(content, md) == [page_content |-> content, metadata |-> md]

\* the passages of the populated index, in the order they were added
Corpus ==
    << Doc(<<"a","b","c","d","e">>,
           page_type :> <<"f","a","q">> @@ title :> <<"a","b">> @@ source :> <<"u","1">>),
       Doc(<<"a","b">>,
           page_type :> <<"f","a","q">> @@ title :> <<"c","d">> @@ source :> <<"u","2">>),
       Doc(<<"c","d","e","f">>,
           page_type :> <<"c","o","u","r","s","e">> @@ source :> <<"u","3">>
               @@ author :> <<"x">>) >>

\* the handles: None, a populated index, an index with no passage
Handles == {"None", "dbA", "dbEmpty"}

CorpusOf(handle) == IF handle = "dbA" THEN Corpus ELSE <<>>

Queries == {<<"a","b">>, <<"d","e","f">>, <<"z">>}

EmptyMap == [f \in {} |-> <<>>]

\* an Optional argument: None, or a value
None(default) == [some |-> FALSE, val |-> default]

Some(v) == [some |-> TRUE, val |-> v]

\* the filter_dict values callers pass
Filters ==
    { None(EmptyMap), Some(EmptyMap),
      Some(page_type :> <<"f","a","q">>),
      Some(page_type :> <<"f","a","q">> @@ title :> <<"c","d">>),
      Some(title :> <<"z","z">>),
      Some(author :> <<"x">>) }

\* the index's similarity of a passage to a query: the number of characters of
\* the query that occur in the passage
Score(query, doc) == Cardinality({i \in DOMAIN query : query[i] \in Range(doc.page_content)})

\* the index's metadata filter: exact equality on every field of the filter
Matches(md, filter) == \A f \in DOMAIN filter : f \in DOMAIN md /\ md[f] = filter[f]

RECURSIVE Ranked(_, _, _)
\* the passages at positions S of corpus by non-increasing similarity, the
\* earlier passage first among equals
Ranked(corpus, query, S) ==
    IF S = {} THEN <<>>
    ELSE LET best == CHOOSE i \in S : \A j \in S :
                        \/ Score(query, corpus[i]) > Score(query, corpus[j])
                        \/ Score(query, corpus[i]) = Score(query, corpus[j]) /\ i <= j
         IN  <<corpus[best]>> \o Ranked(corpus, query, S \ {best})

\* FAISS.similarity_search(query, k=k[, filter=filter]) on a loaded index
similarity_search(handle, query, k, filtered, filter) ==
    LET corpus == CorpusOf(handle)
        eligible == {i \in DOMAIN corpus : ~filtered \/ Matches(corpus[i].metadata, filter)}
    IN  Prefix(Ranked(corpus, query, eligible), k)

\* the paths that hold a saved index when the library functions are exercised
SavedPaths == {"app/data/vectordb", "app/data/empty"}

Paths == SavedPaths \cup {"app/data/missing"}

Models == {"text-embedding-3-small", "text-embedding-3-large"}

\* FAISS.load_local(folder_path=load_path, ...); disk: the paths that hold a
\* saved index. It raises for any other path.
load_local(disk, load_path) ==
    [raised |-> load_path \notin disk,
     handle |-> IF load_path = "app/data/empty" THEN "dbEmpty" ELSE "dbA"]

\* one call of vectorstore.similarity_search, as the caller sees it: an
\* AttributeError on None, the lookup's exception, or the passages.
\* lookupFails: the embedding of the query or the lookup raises.
Lookup(vectorstore, query, k, filtered, filter, lookupFails) ==
    IF vectorstore = "None"
    THEN [raised |-> TRUE, docs |-> <<>>, calls |-> <<>>]
    ELSE LET found == IF lookupFails THEN <<>>
                      ELSE similarity_search(vectorstore, query, k, filtered, filter)
         IN  [raised |-> lookupFails, docs |-> found,
              calls |-> << [query |-> query, k |-> k, filtered |-> filtered,
                            filter |-> filter, raised |-> lookupFails,
                            result |-> found] >>]

\* ------------------------------------------------------------------ vector_search.py

load_vectordb_no_except(disk, load_path, model, ctorFails) ==
    LET r == load_local(disk, load_path)
    IN  IF ctorFails \/ r.raised
        THEN [outcome |-> "raise", handle |-> "None", printed |-> 0]
        ELSE [outcome |-> "return", handle |-> r.handle, printed |-> 0]

\* load_vectordb(load_path, model); ctorFails: OpenAIEmbeddings(...) raises
load_vectordb(disk, load_path, model, ctorFails) ==
    LET r == load_local(disk, load_path)
    IN  IF ctorFails \/ r.raised
        THEN [outcome |-> "return", handle |-> "None", printed |-> 1]
        ELSE [outcome |-> "return", handle |-> r.handle, printed |-> 0]

\* bool(filter_dict)
Truthy(filter_dict) == filter_dict.some /\ DOMAIN filter_dict.val # {}

search_similar_chunks_no_except(vectorstore, query, k, filter_dict, lookupFails) ==
    LET r == IF Truthy(filter_dict)
             THEN Lookup(vectorstore, query, k, TRUE, filter_dict.val, lookupFails)
             ELSE Lookup(vectorstore, query, k, FALSE, EmptyMap, lookupFails)
    IN  [outcome |-> IF r.raised THEN "raise" ELSE "return",
         docs |-> r.docs, calls |-> r.calls, printed |-> 0]

search_similar_chunks_k_plus_one(vectorstore, query, k, filter_dict, lookupFails) ==
    LET r == IF Truthy(filter_dict)
             THEN Lookup(vectorstore, query, k + 1, TRUE, filter_dict.val, lookupFails)
             ELSE Lookup(vectorstore, query, k + 1, FALSE, EmptyMap, lookupFails)
    IN  [outcome |-> "return", docs |-> r.docs, calls |-> r.calls,
         printed |-> IF r.raised THEN 1 ELSE 0]

search_similar_chunks_filter_dropped(vectorstore, query, k, filter_dict, lookupFails) ==
    LET r == Lookup(vectorstore, query, k, FALSE, EmptyMap, lookupFails)
    IN  [outcome |-> "return", docs |-> r.docs, calls |-> r.calls,
         printed |-> IF r.raised THEN 1 ELSE 0]

\* search_similar_chunks(vectorstore, query, k, filter_dict)
search_similar_chunks(vectorstore, query, k, filter_dict, lookupFails) ==
    LET r == IF Truthy(filter_dict)
             THEN Lookup(vectorstore, query, k, TRUE, filter_dict.val, lookupFails)
             ELSE Lookup(vectorstore, query, k, FALSE, EmptyMap, lookupFails)
    IN  IF r.raised
        THEN [outcome |-> "return", docs |-> <<>>, calls |-> r.calls, printed |-> 1]
        ELSE [outcome |-> "return", docs |-> r.docs, calls |-> r.calls, printed |-> 0]

default_fields ==
    <<page_type, primary_category, subcategory, title, chunk_index, total_chunks, source>>

\* f"{display_field}: {value}"
MetadataLine(field, value) == Title(ReplaceUnderscore(field)) \o <<":", " ">> \o value

RECURSIVE MetadataLines(_, _)
\* the list metadata_lines of one document
MetadataLines(fields, md) ==
    IF fields = <<>> THEN <<>>
    ELSE (IF Head(fields) \in DOMAIN md
          THEN <<MetadataLine(Head(fields), md[Head(fields)])>>
          ELSE <<>>) \o MetadataLines(Tail(fields), md)

\* the content of one document as appended to output_parts
ShownContent(content, max_content_length) ==
    IF max_content_length.some /\ max_content_length.val # 0
           /\ Len(content) > max_content_length.val
    THEN Prefix(content, max_content_length.val) \o Ellipsis
    ELSE content

\* what one turn of the loop over documents appends to output_parts
ChunkParts(i, doc, fields, include_content, max_content_length) ==
    << ChunkPrefix \o Decimal(i) \o <<":">>,
       Dashes,
       Join(MetadataLines(fields, doc.metadata), NL) >>
    \o (IF include_content
        THEN <<ContentHeader, Dashes, ShownContent(doc.page_content, max_content_length), Dashes>>
        ELSE <<>>)

RECURSIVE AllChunkParts(_, _, _, _, _)
\* the loop over documents, from the i-th on
AllChunkParts(i, documents, fields, include_content, max_content_length) ==
    IF i > Len(documents) THEN <<>>
    ELSE ChunkParts(i, documents[i], fields, include_content, max_content_length)
         \o AllChunkParts(i + 1, documents, fields, include_content, max_content_length)

\* output_parts of a call that passes the check for no documents
Report(documents, metadata_fields, include_content, max_content_length) ==
    LET fields == IF metadata_fields.some /\ metadata_fields.val # <<>>
                  THEN metadata_fields.val ELSE default_fields
    IN  <<FoundPrefix \o Decimal(Len(documents)) \o FoundSuffix>>
        \o AllChunkParts(1, documents, fields, include_content, max_content_length)

format_chunk_results_no_sentinel(documents, metadata_fields, include_content, max_content_length) ==
    LET parts == Report(documents, metadata_fields, include_content, max_content_length)
    IN  [str |-> Join(parts, NL), parts |-> parts]

\* format_chunk_results(documents, metadata_fields, include_content, max_content_length)
format_chunk_results(documents, metadata_fields, include_content, max_content_length) ==
    IF documents = <<>>
    THEN [str |-> NoResults, parts |-> <<>>]
    ELSE LET parts == Report(documents, metadata_fields, include_content, max_content_length)
         IN  [str |-> Join(parts, NL), parts |-> parts]

AddItem_overwrite(summary, key, value) ==
    IF key \notin DOMAIN summary
    THEN summary @@ (key :> {value})
    ELSE [summary EXCEPT ![key] = {value}]

\* one turn of the loop over doc.metadata.items()
AddItem(summary, key, value) ==
    IF key \notin DOMAIN summary
    THEN summary @@ (key :> {value})
    ELSE [summary EXCEPT ![key] = @ \cup {value}]

RECURSIVE AddItems(_, _, _)
\* the loop over the items of one document's metadata that are still to visit
AddItems(summary, md, keys) ==
    IF keys = {} THEN summary
    ELSE LET key == CHOOSE x \in keys : TRUE
         IN  AddItems(AddItem(summary, key, md[key]), md, keys \ {key})

RECURSIVE Summarize(_, _)
\* the loop over sample_docs
Summarize(summary, docs) ==
    IF docs = <<>> THEN summary
    ELSE Summarize(AddItems(summary, Head(docs).metadata, DOMAIN Head(docs).metadata), Tail(docs))

\* inspect_metadata(vectorstore, sample_query, sample_size)
inspect_metadata(vectorstore, sample_query, sample_size, lookupFails) ==
    LET r == Lookup(vectorstore, sample_query, sample_size, FALSE, EmptyMap, lookupFails)
    IN  IF r.raised
        THEN [outcome |-> "raise", summary |-> EmptyMap, calls |-> r.calls]
        ELSE [outcome |-> "return", summary |-> Summarize(EmptyMap, r.docs), calls |-> r.calls]

\* ------------------------------------------------------------------ main_streamlit.py

\* os.path.join(base_dir, 'data', 'data', 'vectordb')
vectordb_path == "app/data/data/vectordb"

SetupNeeded_falsy(vectordb, chain) == vectordb \in {"unset", "None"} \/ chain = "unset"

\* 'vectordb' not in st.session_state or 'chain' not in st.session_state
SetupNeeded(vectordb, chain) == vectordb = "unset" \/ chain = "unset"

\* create_chat_chain(openai_api_key) of chat_utils
create_chat_chain == "chain"

\* the entries one non-empty user_input appends to chat_history
Interaction == <<"user", "assistant">>

\* ------------------------------------------------------------------ states

\* the documents lists passed to format_chunk_results
RECURSIVE DocLists(_)
DocLists(n) ==
    IF n = 0 THEN {<<>>}
    ELSE DocLists(n - 1) \cup {Append(l, Corpus[i]) : l \in DocLists(n - 1), i \in DOMAIN Corpus}

\* the metadata_fields passed to format_chunk_results
FieldLists ==
    { None(<<>>), Some(<<>>), Some(<<title>>), Some(<<source, title, page_type>>),
      Some(<<author, chunk_index, title>>) }

\* the max_content_length passed to format_chunk_results
Lengths == {None(0)} \cup {Some(n) : n \in 0..MaxLen}

\* the calls of the module's functions a caller makes.
\* ctorFails: OpenAIEmbeddings(...) raises; lookupFails: the embedding of the
\* query, or the lookup, raises.
LoadCalls ==
    [op : {"load_vectordb"}, load_path : Paths, model : Models, ctorFails : BOOLEAN]

SearchCalls ==
    [op : {"search_similar_chunks"}, vectorstore : Handles, query : Queries, k : 1..MaxK,
     filter_dict : Filters, lookupFails : BOOLEAN]

FormatCalls ==
    [op : {"format_chunk_results"}, documents : DocLists(MaxDocs), metadata_fields : FieldLists,
     include_content : BOOLEAN, max_content_length : Lengths]

InspectCalls ==
    [op : {"inspect_metadata"}, vectorstore : Handles, sample_query : Queries,
     sample_size : 1..MaxK, lookupFails : BOOLEAN]

NoCall == [op |-> "none"]

\* nothing has been called, no script has run
Fresh ==
    /\ outcome = "none"
    /\ db = "None"
    /\ retDocs = <<>>
    /\ retStr = <<>>
    /\ output_parts = <<>>
    /\ retMap = EmptyMap
    /\ indexCalls = <<>>
    /\ printed = 0
    /\ imported = FALSE
    /\ ss_vectordb = "unset"
    /\ ss_chain = "unset"
    /\ chat_history = <<>>
    /\ loads = 0
    /\ setups = 0
    /\ reruns = 0

\* a caller about to make one call of vector_search.py
Init ==
    /\ args \in LoadCalls \cup SearchCalls \cup FormatCalls \cup InspectCalls
    /\ envKey = TRUE
    /\ dotenvKey = TRUE
    /\ indexOnDisk = TRUE
    /\ Fresh

Called(f) == outcome # "none" /\ args.op = f

LoadVectordb ==
    /\ outcome = "none"
    /\ args.op = "load_vectordb"
    /\ LET r == load_vectordb(SavedPaths, args.load_path, args.model, args.ctorFails)
       IN  /\ outcome' = r.outcome
           /\ db' = IF r.outcome = "return" THEN r.handle ELSE db
           /\ printed' = r.printed
    /\ UNCHANGED <<args, retDocs, retStr, output_parts, retMap, indexCalls, appVars>>

SearchSimilarChunks ==
    /\ outcome = "none"
    /\ args.op = "search_similar_chunks"
    /\ LET r == search_similar_chunks(args.vectorstore, args.query, args.k,
                                      args.filter_dict, args.lookupFails)
       IN  /\ outcome' = r.outcome
           /\ retDocs' = r.docs
           /\ indexCalls' = r.calls
           /\ printed' = r.printed
    /\ UNCHANGED <<args, db, retStr, output_parts, retMap, appVars>>

FormatChunkResults ==
    /\ outcome = "none"
    /\ args.op = "format_chunk_results"
    /\ LET r == format_chunk_results(args.documents, args.metadata_fields,
                                     args.include_content, args.max_content_length)
       IN  /\ outcome' = "return"
           /\ retStr' = r.str
           /\ output_parts' = r.parts
    /\ UNCHANGED <<args, db, retDocs, retMap, indexCalls, printed, appVars>>

InspectMetadata ==
    /\ outcome = "none"
    /\ args.op = "inspect_metadata"
    /\ LET r == inspect_metadata(args.vectorstore, args.sample_query, args.sample_size,
                                 args.lookupFails)
       IN  /\ outcome' = r.outcome
           /\ retMap' = r.summary
           /\ indexCalls' = r.calls
    /\ UNCHANGED <<args, db, retDocs, retStr, output_parts, printed, appVars>>

Next == LoadVectordb \/ SearchSimilarChunks \/ FormatChunkResults \/ InspectMetadata

Spec == Init /\ [][Next]_vars

\* one browser session of the chat application, before the script's first run
AppInit ==
    /\ args = NoCall
    /\ envKey \in BOOLEAN
    /\ dotenvKey \in BOOLEAN
    /\ indexOnDisk \in BOOLEAN
    /\ Fresh

\* one run of the script main_streamlit.py, with the text of the input widget.
\* ctorFails: OpenAIEmbeddings(...) raises inside load_vectordb.
Rerun ==
    \E user_input \in {"", "question"}, ctorFails \in BOOLEAN :
        LET \* line 5: the first import runs vector_search's module code
            \* (load_dotenv, then the check of the key); a raise ends the run
            keyAtImport == IF imported THEN envKey ELSE envKey \/ dotenvKey
            importOk == imported \/ keyAtImport
            \* line 28
            needSetup == importOk /\ SetupNeeded(ss_vectordb, ss_chain)
            \* lines 13-16: setup's own load_dotenv and check of the key
            keyAtSetup == IF needSetup THEN keyAtImport \/ dotenvKey ELSE keyAtImport
            setupRaises == needSetup /\ ~keyAtSetup
            disk == IF indexOnDisk THEN {vectordb_path} ELSE {}
            r == load_vectordb(disk, vectordb_path, "text-embedding-3-small", ctorFails)
        IN  /\ reruns < MaxReruns
            /\ reruns' = reruns + 1
            /\ envKey' = keyAtSetup
            /\ imported' = importOk
            /\ setups' = IF needSetup THEN setups + 1 ELSE setups
            /\ IF needSetup /\ ~setupRaises
               THEN /\ loads' = loads + 1
                    /\ ss_vectordb' = r.handle
                    /\ ss_chain' = create_chat_chain
               ELSE UNCHANGED <<loads, ss_vectordb, ss_chain>>
            /\ chat_history' = IF importOk /\ ~setupRaises /\ user_input # ""
                               THEN chat_history \o Interaction
                               ELSE chat_history
            /\ UNCHANGED <<dotenvKey, indexOnDisk, libVars>>

\* the user edits the .env file between two runs
EditDotenv ==
    /\ dotenvKey' = ~dotenvKey
    /\ UNCHANGED <<imported, envKey, indexOnDisk, ss_vectordb, ss_chain, chat_history,
                   loads, setups, reruns, libVars>>

\* an index is saved to, or removed from, the app's path between two runs
ChangeDisk ==
    /\ indexOnDisk' = ~indexOnDisk
    /\ UNCHANGED <<imported, envKey, dotenvKey, ss_vectordb, ss_chain, chat_history,
                   loads, setups, reruns, libVars>>

AppNext == Rerun \/ EditDotenv \/ ChangeDisk

AppSpec == AppInit /\ [][AppNext]_vars

\* ------------------------------------------------------------------ properties

\* the call had no index to query, or its lookup raised
LookupFailed == args.vectorstore = "None" \/ args.lookupFails

\* C1: search_similar_chunks never raises: when the handle is None or the
\* embedding or lookup raises it returns the empty list, and otherwise it
\* returns exactly the list the index produced.
C1_SearchNeverRaises ==
    Called("search_similar_chunks") =>
        /\ outcome = "return"
        /\ LookupFailed => retDocs = <<>>
        /\ ~LookupFailed => Len(indexCalls) = 1 /\ retDocs = indexCalls[1].result

C1_Witness ==
    /\ Called("search_similar_chunks")
    /\ args.vectorstore = "dbA"
    /\ args.lookupFails
    /\ outcome = "return"
    /\ retDocs = <<>>
    /\ printed = 1

\* the load had to fail: the embedding function or the deserialization raised
LoadFailed == args.ctorFails \/ args.load_path \notin SavedPaths

\* C2: load_vectordb never raises: when constructing the embedding function or
\* deserializing the index fails it prints one error and returns None, and
\* otherwise it returns the loaded index.
C2_LoadNeverRaises ==
    Called("load_vectordb") =>
        /\ outcome = "return"
        /\ LoadFailed => db = "None" /\ printed = 1
        /\ ~LoadFailed => db = load_local(SavedPaths, args.load_path).handle /\ printed = 0

C2_Witness ==
    /\ Called("load_vectordb")
    /\ args.load_path = "app/data/missing"
    /\ ~args.ctorFails
    /\ outcome = "return"
    /\ db = "None"
    /\ printed = 1

\* C3: no operation that queries the index lets a failed lookup (or a None
\* handle) reach the caller: search_similar_chunks and inspect_metadata both
\* return, with an empty result.
C3_NoQueryRaises ==
    /\ Called("search_similar_chunks") => outcome = "return" /\ (LookupFailed => retDocs = <<>>)
    /\ Called("inspect_metadata") => outcome = "return" /\ (LookupFailed => retMap = EmptyMap)

\* the content of the i-th document as it stands in output_parts (include_content)
ContentPart(i) == output_parts[7 * i]

\* the joined metadata lines of the i-th document as they stand in output_parts
MetadataPart(i) == output_parts[(IF args.include_content THEN 7 ELSE 3) * (i - 1) + 4]

\* C4: with max_content_length = N set (not None) and include_content, a
\* passage longer than N is shown as at most N of its characters followed by
\* "...", and a passage not longer than N is shown in full.
C4_TruncatedToN ==
    (/\ Called("format_chunk_results")
     /\ args.include_content
     /\ args.max_content_length.some) =>
        \A i \in DOMAIN args.documents :
            LET content == args.documents[i].page_content
                N == args.max_content_length.val
            IN  IF Len(content) > N
                THEN \E m \in 0..N : ContentPart(i) = SubSeq(content, 1, m) \o Ellipsis
                ELSE ContentPart(i) = content

RECURSIVE Present(_, _)
\* the fields of a list that are keys of md, in the list's order
Present(fields, md) ==
    IF fields = <<>> THEN <<>>
    ELSE (IF Head(fields) \in DOMAIN md THEN <<Head(fields)>> ELSE <<>>)
         \o Present(Tail(fields), md)

\* C5: for every metadata_fields list passed (the empty list too), the
\* metadata lines of each passage are those of the list's fields that are keys
\* of the passage's metadata, in the list's order.
C5_LinesFollowList ==
    (/\ Called("format_chunk_results")
     /\ args.documents # <<>>
     /\ args.metadata_fields.some) =>
        \A i \in DOMAIN args.documents :
            LET md == args.documents[i].metadata
                shown == Present(args.metadata_fields.val, md)
            IN  MetadataPart(i) =
                    Join([j \in DOMAIN shown |-> MetadataLine(shown[j], md[shown[j]])], NL)

\* C6: format_chunk_results returns "No results found." for an empty
\* documents list whatever the other arguments, and never for a non-empty one.
C6_SentinelIffEmpty ==
    Called("format_chunk_results") => (args.documents = <<>> <=> retStr = NoResults)

C6_Witness ==
    /\ Called("format_chunk_results")
    /\ args.documents = <<>>
    /\ args.metadata_fields = Some(<<title>>)
    /\ ~args.include_content
    /\ args.max_content_length = Some(0)
    /\ retStr = NoResults

\* C7: a search on a loaded index that does not fail returns at most k
\* passages, each a passage of the index's corpus, by non-increasing
\* similarity to the query.
C7_TopKOfCorpus ==
    (Called("search_similar_chunks") /\ ~LookupFailed) =>
        /\ Len(retDocs) <= args.k
        /\ \A i \in DOMAIN retDocs : retDocs[i] \in Range(CorpusOf(args.vectorstore))
        /\ \A i, j \in DOMAIN retDocs :
               i < j => Score(args.query, retDocs[i]) >= Score(args.query, retDocs[j])

C7_Witness ==
    /\ Called("search_similar_chunks")
    /\ ~LookupFailed
    /\ args.filter_dict.some
    /\ args.k = 2
    /\ Len(retDocs) = 2
    /\ Score(args.query, retDocs[1]) > Score(args.query, retDocs[2])

\* C8: every passage search_similar_chunks returns equals the filter on every
\* field of the filter_dict passed (none, for the empty mapping).
C8_ResultsMatchFilter ==
    (Called("search_similar_chunks") /\ args.filter_dict.some) =>
        \A i \in DOMAIN retDocs : \A f \in DOMAIN args.filter_dict.val :
            /\ f \in DOMAIN retDocs[i].metadata
            /\ retDocs[i].metadata[f] = args.filter_dict.val[f]

C8_Witness ==
    /\ Called("search_similar_chunks")
    /\ args.vectorstore = "dbA"
    /\ args.filter_dict = Some(page_type :> <<"f","a","q">>)
    /\ args.k = 3
    /\ Len(retDocs) = 2

\* the passages the one lookup of the call returned
Sampled == indexCalls[1].result

\* C9: an inspect_metadata call that returns has made exactly one unfiltered
\* similarity search, with sample_query and k = sample_size, and returns the
\* mapping from every metadata field of the passages found to the set of the
\* values found for it (the empty mapping for no passage).
C9_SummaryOfOneSearch ==
    (Called("inspect_metadata") /\ outcome = "return") =>
        /\ Len(indexCalls) = 1
        /\ indexCalls[1].query = args.sample_query
        /\ indexCalls[1].k = args.sample_size
        /\ ~indexCalls[1].filtered
        /\ DOMAIN retMap = UNION {DOMAIN Sampled[i].metadata : i \in DOMAIN Sampled}
        /\ \A key \in DOMAIN retMap :
               retMap[key] = {Sampled[i].metadata[key] :
                                 i \in {n \in DOMAIN Sampled : key \in DOMAIN Sampled[n].metadata}}

C9_Witness ==
    /\ Called("inspect_metadata")
    /\ outcome = "return"
    /\ args.sample_size = 3
    /\ page_type \in DOMAIN retMap
    /\ Cardinality(retMap[page_type]) = 2
    /\ author \in DOMAIN retMap

=============================================================================
